---- MODULE Spec2Model ----
(* Category page of the lighting catalogue: src/src/app/products/category/page.jsx *)
(* The component keeps two pieces of React state (filters, showFilters) and renders *)
(* two sets of uncontrolled checkboxes (mobile drawer, desktop sidebar), an         *)
(* animated drawer and the product grid.                                            *)
EXTENDS Integers, Sequences, FiniteSets, TLC

\* ---------------------------------------------------------------- bounds
\* number of checkbox clicks explored
MaxClicks == 2
\* number of frames the 0.3 s tween of the drawer is divided into
AnimSteps == 3

\* ---------------------------------------------------------------- static data
PlaceholderImage == "https://png.pngtree.com/element_pic/16/12/06/5d79b5dd066400e188713f7dd417a3f4.png"

lightingProducts ==
  << [name |-> "Spot Down Series",         image |-> PlaceholderImage],
     [name |-> "Tracks System",            image |-> PlaceholderImage],
     [name |-> "Modular Series",           image |-> PlaceholderImage],
     [name |-> "Panel & General Lighting", image |-> PlaceholderImage],
     [name |-> "Pendant Series",           image |-> PlaceholderImage],
     [name |-> "Ceiling Surface Series",   image |-> PlaceholderImage],
     [name |-> "Profile Series",           image |-> PlaceholderImage] >>

\* the three headed checkbox lists of the mobile drawer (motion.aside)
mobileFilterGroups_extraOption ==
  << [label |-> "Mounting type",
      options |-> << "Ceiling recessed", "Recessed Suspended", "Surface Mounted",
                     "Suspended", "Surface Suspended Recessed" >>],
     [label |-> "Light distribution",
      options |-> << "A10-A32 wide 100% direct", "A40-A44 medium 100% direct",
                     "A50-A80 narrow 100% direct", "B41-B63 narrow direct" >>],
     [label |-> "Lamp Type", options |-> << "LED", "CONLGB", "Halogen" >>] >>

mobileFilterGroups ==
  << [label |-> "Mounting type",
      options |-> << "Ceiling recessed", "Recessed Suspended", "Surface Mounted",
                     "Suspended", "Surface Suspended Recessed" >>],
     [label |-> "Light distribution",
      options |-> << "A10-A32 wide 100% direct", "A40-A44 medium 100% direct",
                     "A50-A80 narrow 100% direct", "B41-B63 narrow direct" >>],
     [label |-> "Lamp Type", options |-> << "LED", "CONLGB" >>] >>

\* the three headed checkbox lists of the desktop sidebar (aside)
desktopFilterGroups ==
  << [label |-> "Mounting type",
      options |-> << "Ceiling recessed", "Recessed Suspended", "Surface Mounted",
                     "Suspended", "Surface Suspended Recessed" >>],
     [label |-> "Light distribution",
      options |-> << "A10-A32 wide 100% direct", "A40-A44 medium 100% direct",
                     "A50-A80 narrow 100% direct", "B41-B63 narrow direct" >>],
     [label |-> "Lamp Type", options |-> << "LED", "CONLGB" >>] >>

\* one <input type="checkbox"> per item of every list: the (heading, item) pairs
Checkboxes(groups) ==
  UNION { { << groups[i].label, groups[i].options[j] >> :
              j \in 1..Len(groups[i].options) } : i \in 1..Len(groups) }

\* ---------------------------------------------------------------- state
VARIABLES
  filters,         \* useState({}) : map label -> set of options
  showFilters,     \* useState(false)
  drawerChecked,   \* checked boxes of the mobile drawer (DOM state of uncontrolled inputs)
  sidebarChecked,  \* checked boxes of the desktop sidebar (DOM state of uncontrolled inputs)
  x,               \* current translate-x of the drawer, in frames: -AnimSteps is -100%, 0 is 0
  animFrom,        \* x at which the running tween started
  grid,            \* product cards of the last render
  resultCount,     \* the "N Results" figure of the last render
  clicks,          \* number of checkbox clicks so far
  last,            \* history: the last handler that ran
  prev             \* history: showFilters and the checked sets before that handler ran

vars == << filters, showFilters, drawerChecked, sidebarChecked, x, animFrom,
           grid, resultCount, clicks, last, prev >>

\* ---------------------------------------------------------------- pure parts
\* selected set of a group as held by the component state
Selected(g) == IF g \in DOMAIN filters THEN filters[g] ELSE {}

\* prev => !prev
toggleFilters_open(prevValue) == TRUE

toggleFilters(prevValue) == ~prevValue

\* default action of a click on an uncontrolled checkbox: checked = !checked
checkboxClick_checkOnly(checked, box) == checked \cup {box}

checkboxClick(checked, box) ==
  IF box \in checked THEN checked \ {box} ELSE checked \cup {box}

\* animate={{ x: showFilters ? 0 : '-100%' }}
animateTarget(show) == IF show THEN 0 ELSE -AnimSteps

\* lightingProducts.map((product, index) => <a ...>) : the cards, in catalogue order
visibleProducts_filtered ==
  IF drawerChecked \cup sidebarChecked = {}
  THEN [index \in 1..Len(lightingProducts) |->
          [key |-> index - 1, href |-> "/products/category/objects/",
           src |-> lightingProducts[index].image,
           alt |-> lightingProducts[index].name,
           title |-> lightingProducts[index].name]]
  ELSE << >>

visibleProducts_dropLast ==
  [index \in 1..(Len(lightingProducts) - 1) |->
     [key |-> index - 1, href |-> "/products/category/objects/",
      src |-> lightingProducts[index].image,
      alt |-> lightingProducts[index].name,
      title |-> lightingProducts[index].name]]

visibleProducts ==
  [index \in 1..Len(lightingProducts) |->
     [key |-> index - 1, href |-> "/products/category/objects/",
      src |-> lightingProducts[index].image,
      alt |-> lightingProducts[index].name,
      title |-> lightingProducts[index].name]]

\* {lightingProducts.length} Results
resultsLabel == Len(lightingProducts)

NoBox == << "", "" >>

Snapshot ==
  [filters |-> filters, show |-> showFilters,
   drawer |-> drawerChecked, sidebar |-> sidebarChecked]

\* history record of a handler call; repeat: the call before was the same call
Call(op, box) == [op |-> op, box |-> box, repeat |-> (last.op = op /\ last.box = box)]

\* ---------------------------------------------------------------- behaviour
Init ==
  /\ filters = << >>
  /\ showFilters = FALSE
  /\ drawerChecked = {}
  /\ sidebarChecked = {}
  /\ x = -AnimSteps
  /\ animFrom = -AnimSteps
  /\ grid = visibleProducts
  /\ resultCount = resultsLabel
  /\ clicks = 0
  /\ last = [op |-> "none", box |-> NoBox, repeat |-> FALSE]
  /\ prev = [filters |-> << >>, show |-> FALSE, drawer |-> {}, sidebar |-> {}]

\* onClick of the filter button: setShowFilters(prev => !prev), then the component
\* re-renders; the tween towards the new target starts from the current x
ToggleFilters_unmount ==
  /\ showFilters' = toggleFilters(showFilters)
  /\ animFrom' = x
  /\ grid' = visibleProducts
  /\ resultCount' = resultsLabel
  /\ drawerChecked' = IF showFilters THEN {} ELSE drawerChecked
  /\ last' = Call("toggleFilters", NoBox)
  /\ prev' = Snapshot
  /\ UNCHANGED << filters, sidebarChecked, x, clicks >>

ToggleFilters_blocking ==
  /\ x = animateTarget(showFilters)
  /\ showFilters' = toggleFilters(showFilters)
  /\ animFrom' = x
  /\ grid' = visibleProducts
  /\ resultCount' = resultsLabel
  /\ last' = Call("toggleFilters", NoBox)
  /\ prev' = Snapshot
  /\ UNCHANGED << filters, drawerChecked, sidebarChecked, x, clicks >>

ToggleFilters ==
  /\ showFilters' = toggleFilters(showFilters)
  /\ animFrom' = x
  /\ grid' = visibleProducts
  /\ resultCount' = resultsLabel
  /\ last' = Call("toggleFilters", NoBox)
  /\ prev' = Snapshot
  /\ UNCHANGED << filters, drawerChecked, sidebarChecked, x, clicks >>

\* click on a checkbox of the mobile drawer: no handler is attached, the input
\* flips its own checked flag and nothing is re-rendered
ClickDrawerCheckbox_closes ==
  /\ clicks < MaxClicks
  /\ \E box \in Checkboxes(mobileFilterGroups) :
       /\ drawerChecked' = checkboxClick(drawerChecked, box)
       /\ last' = Call("drawerCheckbox", box)
  /\ showFilters' = FALSE
  /\ prev' = Snapshot
  /\ clicks' = clicks + 1
  /\ UNCHANGED << filters, sidebarChecked, x, animFrom, grid, resultCount >>

ClickDrawerCheckbox ==
  /\ clicks < MaxClicks
  /\ \E box \in Checkboxes(mobileFilterGroups) :
       /\ drawerChecked' = checkboxClick(drawerChecked, box)
       /\ last' = Call("drawerCheckbox", box)
  /\ prev' = Snapshot
  /\ clicks' = clicks + 1
  /\ UNCHANGED << filters, showFilters, sidebarChecked, x, animFrom, grid, resultCount >>

\* click on a checkbox of the desktop sidebar: likewise
ClickSidebarCheckbox ==
  /\ clicks < MaxClicks
  /\ \E box \in Checkboxes(desktopFilterGroups) :
       /\ sidebarChecked' = checkboxClick(sidebarChecked, box)
       /\ last' = Call("sidebarCheckbox", box)
  /\ prev' = Snapshot
  /\ clicks' = clicks + 1
  /\ UNCHANGED << filters, showFilters, drawerChecked, x, animFrom, grid, resultCount >>

\* elapsed time: one frame of the tween moves the drawer towards its target
AnimFrame ==
  /\ x # animateTarget(showFilters)
  /\ x' = IF x < animateTarget(showFilters) THEN x + 1 ELSE x - 1
  /\ UNCHANGED << filters, showFilters, drawerChecked, sidebarChecked, animFrom,
                  grid, resultCount, clicks, last, prev >>

Next ==
  \/ ToggleFilters
  \/ ClickDrawerCheckbox
  \/ ClickSidebarCheckbox
  \/ AnimFrame

Spec == Init /\ [][Next]_vars

\* the tween is driven by the animation frame loop, which keeps running
FairSpec == Init /\ [][Next]_vars /\ WF_vars(AnimFrame)

\* ---------------------------------------------------------------- properties
FullCatalogNames ==
  << "Spot Down Series", "Tracks System", "Modular Series", "Panel & General Lighting",
     "Pendant Series", "Ceiling Surface Series", "Profile Series" >>

GridNames == [i \in 1..Len(grid) |-> grid[i].title]

OptionsOf(groups, g) ==
  UNION { { groups[i].options[j] : j \in 1..Len(groups[i].options) } :
            i \in { k \in 1..Len(groups) : groups[k].label = g } }

GroupLabels == { "Mounting type", "Light distribution", "Lamp Type" }

AllBoxes == Checkboxes(mobileFilterGroups) \cup Checkboxes(desktopFilterGroups)

NoSelection ==
  /\ \A g \in GroupLabels : Selected(g) = {}
  /\ drawerChecked = {}
  /\ sidebarChecked = {}

\* C1: the drawer is a two-state machine: showFilters starts closed (FALSE) and the
\* only step that changes it is toggleFilters; checkbox clicks and animation frames
\* never change it.
C1_DrawerTwoState ==
  /\ showFilters = FALSE
  /\ [][ /\ (showFilters' # showFilters => ToggleFilters)
         /\ (ClickDrawerCheckbox \/ ClickSidebarCheckbox \/ AnimFrame
               => showFilters' = showFilters) ]_vars

\* the drawer was opened, a checkbox was clicked, the slide-in finished: still open
C1_Witness ==
  /\ showFilters = TRUE
  /\ last.op \in { "drawerCheckbox", "sidebarCheckbox" }
  /\ prev.show = TRUE
  /\ x = 0

\* C2: toggleFilters leaves the selection (filters and the checked boxes of both
\* surfaces) unchanged, so an open/close cycle leaves it as it was; a checkbox click
\* leaves showFilters unchanged.
C2_SelectionDrawerIndependent ==
  [][ /\ (ToggleFilters =>
            /\ UNCHANGED << filters, drawerChecked, sidebarChecked >>
            /\ (last.op = "toggleFilters" =>
                  /\ filters' = prev.filters
                  /\ drawerChecked' = prev.drawer
                  /\ sidebarChecked' = prev.sidebar))
      /\ (ClickDrawerCheckbox \/ ClickSidebarCheckbox => UNCHANGED showFilters) ]_vars

\* the drawer was opened and closed again while boxes were checked on it
C2_Witness ==
  /\ last.op = "toggleFilters"
  /\ last.repeat
  /\ showFilters = FALSE
  /\ drawerChecked # {}
  /\ sidebarChecked # {}

\* C3: a click on the checkbox of (group, option) flips the membership of option in
\* the selected set of group held by the component state and leaves every other
\* (group, option) pair as it was.
C3_ToggleOptionFlipsSelection ==
  [][ \A box \in AllBoxes :
        ((ClickDrawerCheckbox \/ ClickSidebarCheckbox) /\ last'.box = box) =>
          /\ (box[2] \in Selected(box[1])') <=> (box[2] \notin Selected(box[1]))
          /\ \A other \in AllBoxes \ {box} :
               (other[2] \in Selected(other[1])') <=> (other[2] \in Selected(other[1]))
    ]_vars

\* C4: in every state a checkbox of the sidebar is checked iff the checkbox of the
\* same (group, option) in the drawer is checked.
C4_SurfacesAgree ==
  \A box \in AllBoxes : (box \in sidebarChecked) <=> (box \in drawerChecked)

\* C5: clicking the same checkbox twice in a row restores the selection (filters
\* and the checked boxes of both surfaces) to what it was before the two clicks.
C5_ToggleOptionInvolution ==
  /\ [](\A box \in AllBoxes :
          /\ checkboxClick(checkboxClick(drawerChecked, box), box) = drawerChecked
          /\ checkboxClick(checkboxClick(sidebarChecked, box), box) = sidebarChecked)
  /\ [][ ((ClickDrawerCheckbox \/ ClickSidebarCheckbox) /\ last'.repeat) =>
           /\ filters' = prev.filters
           /\ drawerChecked' = prev.drawer
           /\ sidebarChecked' = prev.sidebar ]_vars

\* the same drawer checkbox was clicked twice in a row
C5_Witness ==
  /\ last.op = "drawerCheckbox"
  /\ last.repeat
  /\ clicks >= 2
  /\ drawerChecked = checkboxClick(prev.drawer, last.box)

\* C6: one toggleFilters call negates showFilters; two calls in a row return it to
\* the value before the first.
C6_ToggleDrawerSelfInverse ==
  /\ [](toggleFilters(toggleFilters(showFilters)) = showFilters)
  /\ [][ ToggleFilters =>
           /\ showFilters' = ~showFilters
           /\ (last.op = "toggleFilters" => showFilters' = prev.show) ]_vars

\* two toggleFilters calls in a row, starting from the open drawer
C6_Witness ==
  /\ last.op = "toggleFilters"
  /\ last.repeat
  /\ prev.show = FALSE
  /\ showFilters = TRUE
  /\ clicks > 0

\* C7: with nothing selected the grid shows the 7 products of the catalogue in
\* catalogue order, first Spot Down Series, last Profile Series, and the count is 7.
C7_EmptySelectionShowsCatalog ==
  NoSelection =>
    /\ Len(grid) = 7
    /\ GridNames = FullCatalogNames
    /\ grid[1].title = "Spot Down Series"
    /\ grid[Len(grid)].title = "Profile Series"
    /\ resultCount = 7

\* a box was checked and unchecked, then the page re-rendered with nothing selected
C7_Witness ==
  /\ NoSelection
  /\ clicks >= 2
  /\ last.op = "toggleFilters"

\* C8: whatever is selected, the grid shows the full catalogue in catalogue order.
C8_SelectionDoesNotFilter ==
  /\ GridNames = [i \in 1..Len(lightingProducts) |-> lightingProducts[i].name]
  /\ GridNames = FullCatalogNames
  /\ resultCount = Len(FullCatalogNames)

\* LED is checked under Lamp Type and the page has re-rendered since
C8_Witness ==
  /\ << "Lamp Type", "LED" >> \in drawerChecked
  /\ last.op = "toggleFilters"

\* C9: every selected option belongs to its group's option list (5 mounting
\* types, 4 light distributions, LED and CONLGB) and no selection exists for a
\* label that is not one of the three groups.
C9_SelectionWithinGroups ==
  /\ DOMAIN filters \subseteq GroupLabels
  /\ \A g \in DOMAIN filters :
       filters[g] \subseteq OptionsOf(mobileFilterGroups, g) \cap OptionsOf(desktopFilterGroups, g)
  /\ \A box \in drawerChecked \cup sidebarChecked :
       /\ box[1] \in GroupLabels
       /\ box[2] \in OptionsOf(mobileFilterGroups, box[1])
       /\ box[2] \in OptionsOf(desktopFilterGroups, box[1])
       /\ box[1] = "Lamp Type" => box[2] \in { "LED", "CONLGB" }
  /\ \A groups \in { mobileFilterGroups, desktopFilterGroups } :
       /\ Cardinality(OptionsOf(groups, "Mounting type")) = 5
       /\ Cardinality(OptionsOf(groups, "Light distribution")) = 4
       /\ OptionsOf(groups, "Lamp Type") = { "LED", "CONLGB" }

\* boxes are checked on both surfaces
C9_Witness ==
  /\ drawerChecked # {}
  /\ sidebarChecked # {}
  /\ last.op = "drawerCheckbox"

\* C10: toggleFilters is enabled in every state, also in the middle of a slide; it
\* flips showFilters at once and leaves the drawer where it is; once toggling
\* stops the drawer comes to rest on screen (x = 0) iff showFilters.
C10_AnimationNeverBlocks ==
  /\ [](ENABLED ToggleFilters)
  /\ [][ ToggleFilters => (showFilters' = ~showFilters /\ x' = x) ]_vars
  /\ (<>[][~ToggleFilters]_vars =>
        <>[](/\ x = animateTarget(showFilters)
             /\ (x = 0 <=> showFilters)
             /\ (x = -AnimSteps <=> ~showFilters)))

\* a slide was retargeted half way and the drawer has come to rest
C10_Witness ==
  /\ animFrom \in (1 - AnimSteps)..(-1)
  /\ last.repeat
  /\ last.op = "toggleFilters"
  /\ x = animateTarget(showFilters)

====
